---------------------------- MODULE Spec2Model ----------------------------
(***************************************************************************)
(* A model of git_configspec.py: the config spec parser (parse_iterable),  *)
(* the rule ordering (ConfigSpecRule.__lt__ under sorted()), the command   *)
(* derivation (to_commands), the executor loop (apply) and the main        *)
(* program with its exit codes.                                            *)
(*                                                                         *)
(* Text is modelled character by character: a str is a sequence of         *)
(* one-character strings, so that the regular expressions, str.strip, len  *)
(* and the pathlib conversions are computed as the code computes them.     *)
(***************************************************************************)
EXTENDS Integers, Sequences, FiniteSets, TLC

VARIABLES
    pc,                 \* the position of the program
    config_exists,      \* whether the CONFIG_SPEC file exists
    config_spec,        \* the lines handed to parse_iterable
    line_no,            \* parse_iterable: number of the last line consumed
    data,               \* parse_iterable: the rules collected so far
    warnings,           \* parse_iterable: the logger.warning records emitted
    spec,               \* to_commands: the rules it iterates over
    relative_root,      \* to_commands: the base directory (a path)
    ignore_nonexisting, \* to_commands: the bypass flag
    fs,                 \* the file system: the set of existing paths
    rule_no,            \* to_commands: number of rules consumed
    command_list,       \* to_commands: the commands built so far
    raised,             \* the exception in flight, if any
    mode,               \* "dry_run", "apply" or "stdout"
    cmd_no,             \* apply / print loop: number of commands consumed
    executed,           \* the commands handed to subprocess.run, in order
    printed,            \* the commands printed (would-run or stdout), in order
    run_failed,         \* whether subprocess.run raised CalledProcessError
    exit_code           \* the exit status of the process (-1: still running)

vars == << pc, config_exists, config_spec, line_no, data, warnings, spec,
           relative_root, ignore_nonexisting, fs, rule_no, command_list,
           raised, mode, cmd_no, executed, printed, run_failed, exit_code >>

parse_vars == << config_spec, line_no, data, warnings >>
derive_vars == << spec, relative_root, ignore_nonexisting, fs, rule_no,
                  command_list >>
run_vars == << mode, cmd_no, executed, printed, run_failed, exit_code >>

-----------------------------------------------------------------------------
(* Bounds of the model.                                                    *)

MaxLines == 3        \* lines of a config spec handed to parse_iterable
MaxRules == 4        \* rules in a list handed to sorted()
MaxSpec == 2         \* rules in a list handed to to_commands
MaxMainLines == 2    \* lines of the CONFIG_SPEC file read by the main program

-----------------------------------------------------------------------------
(* Characters and regular-expression classes (Python re, str patterns).    *)

Whitespace == {" ", "\t", "\n", "\r", "\f"}

\* `.` without re.DOTALL: any character except a newline.
IsDot(c) == c # "\n"

\* The number of consecutive characters from index i on that are in the class C
\* (inside) or outside it (~inside): \s is Whitespace inside, \S is Whitespace
\* outside, and . is the newline outside.
RunLen(s, i, C, inside) ==
    CHOOSE n \in 0..Len(s) :
        /\ i + n - 1 <= Len(s)
        /\ \A k \in i..(i + n - 1) : (s[k] \in C) <=> inside
        /\ (i + n <= Len(s) => ~((s[i + n] \in C) <=> inside))

\* `$` after j characters: at the end, or before a newline that ends the string.
AtEnd(s, j) ==
    \/ j = Len(s)
    \/ j = Len(s) - 1 /\ s[Len(s)] = "\n"

\* _COMMENT.match(line): (\s*|\#.*)$ anchored at the start of the line.
COMMENT_match(line) ==
    \/ \E k \in 0..RunLen(line, 1, Whitespace, TRUE) : AtEnd(line, k)
    \/ /\ Len(line) >= 1
       /\ line[1] = "#"
       /\ \E j \in 1..(1 + RunLen(line, 2, {"\n"}, FALSE)) : AtEnd(line, j)

Keyword == <<"e", "l", "e", "m", "e", "n", "t">>

Quote == "\""

\* \s+(?P<selector>\S+) right after a pattern that ends at index e. The greedy
\* \s+ can only succeed with the whole run of whitespace: with less, \S+ would
\* start on a whitespace character.
TailOk(s, e) ==
    LET w == RunLen(s, e + 1, Whitespace, TRUE)
    IN  w >= 1 /\ RunLen(s, e + 1 + w, Whitespace, FALSE) >= 1

SelectorAfter(s, e) ==
    LET w == RunLen(s, e + 1, Whitespace, TRUE)
        n == RunLen(s, e + 1 + w, Whitespace, FALSE)
    IN  SubSeq(s, e + 1 + w, e + w + n)

\* \".+\" starting at st: the indexes of a closing quote after which the rest of
\* the expression matches. The greedy .+ takes the last of them.
QuotedEnds(s, st) ==
    { q \in (st + 2)..Len(s) :
        /\ s[st] = Quote
        /\ s[q] = Quote
        /\ \A i \in (st + 1)..(q - 1) : IsDot(s[i])
        /\ TailOk(s, q) }

\* .+? starting at st: the indexes where the pattern may end. The non-greedy
\* .+? takes the first of them.
LazyEnds(s, st) ==
    { e \in st..Len(s) :
        /\ \A i \in st..e : IsDot(s[i])
        /\ TailOk(s, e) }

Max(S) == CHOOSE x \in S : \A y \in S : y <= x

Min(S) == CHOOSE x \in S : \A y \in S : x <= y

\* The starts of the pattern group: element\s+ is greedy and backtracks, so the
\* pattern may start after any non-empty part of the whitespace run.
PatternStarts(s) ==
    IF Len(s) >= Len(Keyword) /\ SubSeq(s, 1, Len(Keyword)) = Keyword
    THEN { Len(Keyword) + k + 1 :
             k \in 1..RunLen(s, Len(Keyword) + 1, Whitespace, TRUE) }
    ELSE {}

NoMatch == [matched |-> FALSE, scope |-> <<>>, pattern |-> <<>>, selector |-> <<>>]

\* _CS_SCOPE_RULE.match(line): the groups of the first match in the order the
\* backtracking matcher tries them (longest leading whitespace first; the quoted
\* alternative before the unquoted one). The optional trailing group cannot
\* make the match fail and captures nothing the code reads.
CS_SCOPE_RULE_match(line) ==
    LET starts == { st \in PatternStarts(line) :
                        QuotedEnds(line, st) \cup LazyEnds(line, st) # {} }
    IN  IF starts = {} THEN NoMatch
        ELSE LET st == Max(starts)
                 e == IF QuotedEnds(line, st) # {}
                      THEN Max(QuotedEnds(line, st))
                      ELSE Min(LazyEnds(line, st))
             IN  [matched |-> TRUE,
                  scope |-> SubSeq(line, 1, Len(Keyword)),
                  pattern |-> SubSeq(line, st, e),
                  selector |-> SelectorAfter(line, e)]

RECURSIVE lstrip(_, _)
lstrip(s, c) == IF s # <<>> /\ Head(s) = c THEN lstrip(Tail(s), c) ELSE s

RECURSIVE rstrip(_, _)
rstrip(s, c) ==
    IF s # <<>> /\ s[Len(s)] = c THEN rstrip(SubSeq(s, 1, Len(s) - 1), c) ELSE s

\* str.strip(chars) for a single character.
strip(s, c) == rstrip(lstrip(s, c), c)

ConfigSpecRule(scope, pattern, selector) ==
    [scope |-> scope, pattern |-> pattern, selector |-> selector]

-----------------------------------------------------------------------------
(* parse_iterable: one iteration of its loop over the enumerated lines.    *)

\* The loop body with the lines numbered from 0 (enumerate without start=1).
parse_line_from_zero(n, line, d, w) ==
    IF line # <<>> /\ ~COMMENT_match(line)
    THEN LET matches == CS_SCOPE_RULE_match(line)
         IN  IF matches.matched
             THEN [data |-> Append(d, ConfigSpecRule(matches.scope,
                                                     strip(matches.pattern, Quote),
                                                     matches.selector)),
                   warnings |-> w]
             ELSE [data |-> d, warnings |-> Append(w, <<n - 1, line>>)]
    ELSE [data |-> d, warnings |-> w]

\* for line_no, line in enumerate(config_spec, start=1): the body, for line
\* number n, with the rules d and the warnings w collected so far.
parse_line(n, line, d, w) ==
    IF line # <<>> /\ ~COMMENT_match(line)
    THEN LET matches == CS_SCOPE_RULE_match(line)
         IN  IF matches.matched
             THEN [data |-> Append(d, ConfigSpecRule(matches.scope,
                                                     strip(matches.pattern, Quote),
                                                     matches.selector)),
                   warnings |-> w]
             ELSE [data |-> d, warnings |-> Append(w, <<n, line>>)]
    ELSE [data |-> d, warnings |-> w]

ParseLine ==
    /\ pc = "parse"
    /\ line_no < Len(config_spec)
    /\ LET r == parse_line(line_no + 1, config_spec[line_no + 1], data, warnings)
       IN  /\ data' = r.data
           /\ warnings' = r.warnings
    /\ line_no' = line_no + 1
    /\ UNCHANGED << pc, config_exists, config_spec, derive_vars, raised, run_vars >>

ParseReturn ==
    /\ pc = "parse"
    /\ line_no = Len(config_spec)
    /\ pc' = "sort"
    /\ UNCHANGED << config_exists, parse_vars, derive_vars, raised, run_vars >>

-----------------------------------------------------------------------------
(* sorted(rules): list.sort driven by ConfigSpecRule.__lt__. For the short  *)
(* lists of a config spec (fewer than 64 rules) CPython's list.sort is one  *)
(* run: count_run finds the leading run, reverses it when it descends, and  *)
(* binarysort inserts the remaining elements by binary search. Every        *)
(* comparison is a call of __lt__. (count_run as in CPython up to 3.12.)     *)

Star == <<"*">>

\* ConfigSpecRule.__lt__ without its asterisk clause.
lt_length_only(self, other) == Len(self.pattern) < Len(other.pattern)

\* ConfigSpecRule.__lt__
lt(self, other) ==
    Len(self.pattern) < Len(other.pattern) \/ self.pattern = Star

\* count_run: the run goes on while the next element compares as the first
\* pair did (descending: strictly less; otherwise: not less).
RECURSIVE extend_run(_, _, _)
extend_run(a, n, descending) ==
    IF n < Len(a) /\ (lt(a[n + 1], a[n]) <=> descending)
    THEN extend_run(a, n + 1, descending)
    ELSE n

count_run(a) ==
    IF Len(a) = 1
    THEN [n |-> 1, descending |-> FALSE]
    ELSE LET d == lt(a[2], a[1])
         IN  [n |-> extend_run(a, 2, d), descending |-> d]

\* reverse_slice over the first n elements.
reverse_prefix(a, n) ==
    [i \in 1..Len(a) |-> IF i <= n THEN a[n + 1 - i] ELSE a[i]]

\* binarysort's search: the place of pivot in the sorted a[l..r-1].
RECURSIVE binary_search(_, _, _, _)
binary_search(a, pivot, l, r) ==
    IF l < r
    THEN LET p == l + ((r - l) \div 2)
         IN  IF lt(pivot, a[p])
             THEN binary_search(a, pivot, l, p)
             ELSE binary_search(a, pivot, p + 1, r)
    ELSE l

\* binarysort: a[1..start-1] is sorted; insert a[start], a[start+1], ...
RECURSIVE binarysort(_, _)
binarysort(a, start) ==
    IF start > Len(a) THEN a
    ELSE LET l == binary_search(a, a[start], 1, start)
             moved == [i \in 1..Len(a) |->
                          IF i < l \/ i > start THEN a[i]
                          ELSE IF i = l THEN a[start]
                          ELSE a[i - 1]]
         IN  binarysort(moved, start + 1)

\* sorted(iterable) for fewer than 64 elements.
sorted(a) ==
    IF Len(a) < 2 THEN a
    ELSE LET run == count_run(a)
             b == IF run.descending THEN reverse_prefix(a, run.n) ELSE a
         IN  binarysort(b, run.n + 1)

\* __main__: spec=sorted(parse_file(...))
Sort ==
    /\ pc = "sort"
    /\ spec' = sorted(data)
    /\ pc' = "derive"
    /\ UNCHANGED << config_exists, parse_vars, relative_root, ignore_nonexisting,
                    fs, rule_no, command_list, raised, run_vars >>

-----------------------------------------------------------------------------
(* pathlib: a PurePosixPath is its root ("" or "/") and its parts.          *)

\* The parts of a path string: split at "/", dropping empty parts and ".".
RECURSIVE split_parts(_, _, _)
split_parts(s, cur, acc) ==
    LET flush == IF cur = <<>> \/ cur = <<".">> THEN acc ELSE Append(acc, cur)
    IN  IF s = <<>> THEN flush
        ELSE IF Head(s) = "/" THEN split_parts(Tail(s), <<>>, flush)
        ELSE split_parts(Tail(s), Append(cur, Head(s)), acc)

\* Path(str). (A string that starts with exactly two slashes has the root "//";
\* no pattern of the model does.)
Path(s) ==
    [root |-> IF s # <<>> /\ Head(s) = "/" THEN "/" ELSE "",
     parts |-> split_parts(s, <<>>, <<>>)]

\* self / other: an absolute right operand replaces the left one.
joinpath(self, other) ==
    IF other.root # "" THEN other
    ELSE [root |-> self.root, parts |-> self.parts \o other.parts]

\* Path.parent: a path without parts is its own parent.
parent(self) ==
    IF self.parts = <<>> THEN self
    ELSE [self EXCEPT !.parts = SubSeq(self.parts, 1, Len(self.parts) - 1)]

\* Whether self.relative_to(other) returns (it raises ValueError otherwise).
is_relative_to(self, other) ==
    /\ self.root = other.root
    /\ Len(other.parts) <= Len(self.parts)
    /\ SubSeq(self.parts, 1, Len(other.parts)) = other.parts

\* self.relative_to(other), where it returns.
relative_to(self, other) ==
    [root |-> "",
     parts |-> SubSeq(self.parts, Len(other.parts) + 1, Len(self.parts))]

\* Path.exists() against the file system fsys.
exists(path, fsys) == path \in fsys

\* Path("."): no root, no parts.
EmptyPath == [root |-> "", parts |-> <<>>]

\* No exception in flight.
NoError == [type |-> "none", path |-> EmptyPath]

PreparedCommand(gitdir, selector, pattern) ==
    [gitdir |-> gitdir, selector |-> selector, pattern |-> pattern]

-----------------------------------------------------------------------------
(* to_commands: one iteration of its loop over the rules.                  *)

\* The working directory taken to be the pattern's own path.
gitdir_of_pattern_itself(root, pattern) == joinpath(root, pattern)

\* gitdir = (relative_root / pattern).parent
gitdir_of(root, pattern) == parent(joinpath(root, pattern))

to_command(rule, root, ignore, fsys) ==
    LET pattern == Path(rule.pattern)
        gitdir == gitdir_of(root, pattern)
    IN  IF ignore \/ exists(gitdir, fsys)
        THEN IF is_relative_to(pattern, gitdir)
             THEN [raised |-> NoError,
                   commands |-> << PreparedCommand(gitdir, rule.selector,
                                                   relative_to(pattern, gitdir)) >>]
             ELSE [raised |-> [type |-> "ValueError", path |-> pattern],
                   commands |-> <<>>]
        ELSE [raised |-> [type |-> "FileNotFoundError", path |-> gitdir],
              commands |-> <<>>]

DeriveRule ==
    /\ pc = "derive"
    /\ rule_no < Len(spec)
    /\ LET r == to_command(spec[rule_no + 1], relative_root, ignore_nonexisting, fs)
       IN  /\ raised' = r.raised
           /\ command_list' = command_list \o r.commands
           /\ pc' = IF r.raised = NoError THEN "derive" ELSE "except"
    /\ rule_no' = rule_no + 1
    /\ UNCHANGED << config_exists, parse_vars, spec, relative_root,
                    ignore_nonexisting, fs, run_vars >>

DeriveReturn ==
    /\ pc = "derive"
    /\ rule_no = Len(spec)
    /\ pc' = "run"
    /\ UNCHANGED << config_exists, parse_vars, derive_vars, raised, run_vars >>

-----------------------------------------------------------------------------
(* apply and the main program.                                             *)

E_NO_CONFIG_SPEC == 1
E_FILE_PATTERN_NONEXISTENT == 2

\* The exit status of the interpreter when the script runs off its end.
EXIT_END_OF_SCRIPT == 0

\* The exit status of the interpreter after an exception nothing catches.
EXIT_UNCAUGHT == 1

\* The name of the config spec file, in the directory relative_root.
ConfigName == <<"C", "O", "N", "F", "I", "G", "_", "S", "P", "E", "C">>

\* parse_file: open() raises FileNotFoundError when the file does not exist.
OpenConfig ==
    /\ pc = "open"
    /\ IF config_exists
       THEN pc' = "parse" /\ UNCHANGED raised
       ELSE /\ pc' = "except"
            /\ raised' = [type |-> "FileNotFoundError",
                          path |-> joinpath(relative_root,
                                            [root |-> "", parts |-> <<ConfigName>>])]
    /\ UNCHANGED << config_exists, parse_vars, derive_vars, run_vars >>

\* The exit status after an exception left the try block around to_commands:
\* the handler of FileNotFoundError tells the two cases apart by the existence of
\* the config spec; any other exception is not caught.
exit_status(exception, spec_exists) ==
    IF exception.type = "FileNotFoundError"
    THEN IF spec_exists THEN E_FILE_PATTERN_NONEXISTENT ELSE E_NO_CONFIG_SPEC
    ELSE EXIT_UNCAUGHT

Except ==
    /\ pc = "except"
    /\ exit_code' = exit_status(raised, config_exists)
    /\ pc' = "done"
    /\ UNCHANGED << config_exists, parse_vars, derive_vars, raised, mode, cmd_no,
                    executed, printed, run_failed >>

\* if args.stdout: print each command.
PrintCommand ==
    /\ pc = "run"
    /\ mode = "stdout"
    /\ cmd_no < Len(command_list)
    /\ printed' = Append(printed, command_list[cmd_no + 1])
    /\ cmd_no' = cmd_no + 1
    /\ UNCHANGED << pc, config_exists, parse_vars, derive_vars, raised, mode,
                    executed, run_failed, exit_code >>

\* A loop that takes the commands last to first.
next_command_reversed(commands, n) == commands[Len(commands) - n]

\* for cmd in commands_to_apply: the command after n iterations.
next_command(commands, n) == commands[n + 1]

\* The body of apply's loop for one command; ok is the outcome of the checkout.
\* subprocess.run(check=True) raises CalledProcessError when it fails.
apply_command(cmd, dry_run, ok) ==
    IF dry_run
    THEN [printed |-> <<cmd>>, executed |-> <<>>, raises |-> FALSE]
    ELSE [printed |-> <<>>, executed |-> <<cmd>>, raises |-> ~ok]

ApplyCommand ==
    /\ pc = "run"
    /\ mode # "stdout"
    /\ cmd_no < Len(command_list)
    /\ \E ok \in BOOLEAN :
         LET dry_run == mode # "apply"
             r == apply_command(next_command(command_list, cmd_no), dry_run, ok)
         IN  /\ printed' = printed \o r.printed
             /\ executed' = executed \o r.executed
             /\ run_failed' = (run_failed \/ (~dry_run /\ ~ok))
             /\ pc' = IF r.raises THEN "caught" ELSE "run"
    /\ cmd_no' = cmd_no + 1
    /\ UNCHANGED << config_exists, parse_vars, derive_vars, raised, mode,
                    exit_code >>

\* except subprocess.CalledProcessError: the handler prints and logs, and the
\* script runs off its end.
CaughtRunError ==
    /\ pc = "caught"
    /\ exit_code' = EXIT_END_OF_SCRIPT
    /\ pc' = "done"
    /\ UNCHANGED << config_exists, parse_vars, derive_vars, raised, mode, cmd_no,
                    executed, printed, run_failed >>

\* Every command was printed or applied: the script runs off its end.
Finish ==
    /\ pc = "run"
    /\ cmd_no = Len(command_list)
    /\ exit_code' = EXIT_END_OF_SCRIPT
    /\ pc' = "done"
    /\ UNCHANGED << config_exists, parse_vars, derive_vars, raised, mode, cmd_no,
                    executed, printed, run_failed >>

-----------------------------------------------------------------------------
(* Lines of config specs.                                                  *)

L_empty == <<>>
L_blank == <<" ", " ">>
L_newline == <<"\n">>
L_comment == <<"#", " ", "c">>
L_indented_comment == <<" ", "#", " ", "c">>
L_rule == Keyword \o <<" ", "*", " ", "H", "\n">>
L_path_rule == Keyword \o <<" ", "d", "/", "f", " ", "A">>
L_quoted_rule == Keyword \o <<" ", Quote, "a", " ", "b", Quote, " ", "B">>
L_trailing_rule == Keyword \o <<"\t", "d", " ", "C", " ", "-", "n">>
L_lone_quote == Keyword \o <<" ", Quote, " ", "D">>
L_indented_rule == <<" ">> \o Keyword \o <<" ", "a", " ", "A">>
L_no_selector == Keyword \o <<" ", "a">>
L_other_kind == <<"l", "o", "a", "d", " ", "d">>

SampleLines ==
    { L_empty, L_blank, L_newline, L_comment, L_indented_comment, L_rule,
      L_path_rule, L_quoted_rule, L_trailing_rule, L_lone_quote,
      L_indented_rule, L_no_selector, L_other_kind }

SeqsUpTo(S, n) == UNION { [1..k -> S] : k \in 0..n }

InitParse ==
    /\ pc = "parse"
    /\ config_exists = TRUE
    /\ config_spec \in SeqsUpTo(SampleLines, MaxLines)
    /\ line_no = 0
    /\ data = <<>>
    /\ warnings = <<>>
    /\ spec = <<>>
    /\ relative_root = EmptyPath
    /\ ignore_nonexisting = FALSE
    /\ fs = {}
    /\ rule_no = 0
    /\ command_list = <<>>
    /\ raised = NoError
    /\ mode = "dry_run"
    /\ cmd_no = 0
    /\ executed = <<>>
    /\ printed = <<>>
    /\ run_failed = FALSE
    /\ exit_code = -1

NextParse == ParseLine \/ ParseReturn

SpecParse == InitParse /\ [][NextParse]_vars

-----------------------------------------------------------------------------
(* Lists of rules handed to sorted(). The empty pattern is one the parser   *)
(* produces (from a lone double quote), so it is part of the domain.        *)

SortPatterns == { <<>>, Star, <<"d">>, <<"d", "/", "f">> }

SortRules ==
    { ConfigSpecRule(Keyword, p, sel) : p \in SortPatterns, sel \in {<<"A">>, <<"B">>} }

InitSort ==
    /\ pc = "sort"
    /\ config_exists = TRUE
    /\ config_spec = <<>>
    /\ line_no = 0
    /\ data \in SeqsUpTo(SortRules, MaxRules)
    /\ warnings = <<>>
    /\ spec = <<>>
    /\ relative_root = EmptyPath
    /\ ignore_nonexisting = FALSE
    /\ fs = {}
    /\ rule_no = 0
    /\ command_list = <<>>
    /\ raised = NoError
    /\ mode = "dry_run"
    /\ cmd_no = 0
    /\ executed = <<>>
    /\ printed = <<>>
    /\ run_failed = FALSE
    /\ exit_code = -1

NextSort == Sort

SpecSort == InitSort /\ [][NextSort]_vars

-----------------------------------------------------------------------------
(* Rules, base directories and file systems handed to to_commands.         *)

\* A relative path with the given parts.
Rel(parts) == [root |-> "", parts |-> parts]

Dir_d == <<"d">>
Dir_s == <<"s">>
File_f == <<"f">>

\* The directories and the regular files that may exist below the working
\* directory; a file system holds the working directory and is closed under
\* parent.
DirCandidates == { Rel(<<Dir_d>>), Rel(<<Dir_s>>), Rel(<<Dir_s, Dir_d>>) }

FileCandidates ==
    { Rel(<<File_f>>), Rel(<<Dir_d, File_f>>), Rel(<<Dir_s, File_f>>),
      Rel(<<Dir_s, Dir_d, File_f>>) }

FileSystems ==
    { S \cup {EmptyPath} : S \in
        { T \in SUBSET (DirCandidates \cup FileCandidates) :
            \A x \in T : parent(x) = EmptyPath \/ parent(x) \in T } }

is_file(path, fsys) == path \in fsys /\ path \in FileCandidates

\* relative_root: the directory of the config spec, "." or "s".
Roots == { EmptyPath, Rel(<<Dir_s>>) }

CmdRules ==
    { ConfigSpecRule(Keyword, Star, <<"H">>),
      ConfigSpecRule(Keyword, <<".">>, <<"T">>),
      ConfigSpecRule(Keyword, <<"d">>, <<"A">>),
      ConfigSpecRule(Keyword, <<"d", "/">>, <<"B">>),
      ConfigSpecRule(Keyword, <<"d", "/", "f">>, <<"C">>),
      ConfigSpecRule(Keyword, <<"f">>, <<"D">>),
      ConfigSpecRule(Keyword, <<"s">>, <<"E">>) }

InitCmd ==
    /\ pc = "derive"
    /\ config_exists = TRUE
    /\ config_spec = <<>>
    /\ line_no = 0
    /\ data = <<>>
    /\ warnings = <<>>
    /\ spec \in SeqsUpTo(CmdRules, MaxSpec)
    /\ relative_root \in Roots
    /\ ignore_nonexisting \in BOOLEAN
    /\ fs \in FileSystems
    /\ rule_no = 0
    /\ command_list = <<>>
    /\ raised = NoError
    /\ mode = "dry_run"
    /\ cmd_no = 0
    /\ executed = <<>>
    /\ printed = <<>>
    /\ run_failed = FALSE
    /\ exit_code = -1

NextCmd == DeriveRule \/ DeriveReturn

SpecCmd == InitCmd /\ [][NextCmd]_vars

-----------------------------------------------------------------------------
(* The main program: a run from the command line to the exit status.       *)

L_file_rule == Keyword \o <<" ", "f", " ", "D", "\n">>

MainLines == { L_rule, L_path_rule, L_trailing_rule, L_file_rule, L_other_kind }

Modes == { "dry_run", "apply", "stdout" }

Init ==
    /\ pc = "open"
    /\ config_exists \in BOOLEAN
    /\ relative_root \in Roots
    /\ fs \in FileSystems
    /\ config_exists => relative_root \in fs
    /\ config_spec \in IF config_exists
                       THEN SeqsUpTo(MainLines, MaxMainLines)
                       ELSE { <<>> }
    /\ line_no = 0
    /\ data = <<>>
    /\ warnings = <<>>
    /\ spec = <<>>
    /\ ignore_nonexisting \in BOOLEAN
    /\ rule_no = 0
    /\ command_list = <<>>
    /\ raised = NoError
    /\ mode \in Modes
    /\ cmd_no = 0
    /\ executed = <<>>
    /\ printed = <<>>
    /\ run_failed = FALSE
    /\ exit_code = -1

Next ==
    \/ OpenConfig
    \/ ParseLine
    \/ ParseReturn
    \/ Sort
    \/ DeriveRule
    \/ DeriveReturn
    \/ Except
    \/ PrintCommand
    \/ ApplyCommand
    \/ CaughtRunError
    \/ Finish

Spec == Init /\ [][Next]_vars

-----------------------------------------------------------------------------
(* Properties of the parser, checked under SpecParse. parse_iterable has    *)
(* returned when pc = "sort".                                               *)

ParseReturned == pc = "sort"

\* The line matches the element grammar.
Matches(line) == CS_SCOPE_RULE_match(line).matched

\* The rule the element grammar reads from a matching line.
RuleOfLine(line) ==
    LET m == CS_SCOPE_RULE_match(line)
    IN  ConfigSpecRule(m.scope, strip(m.pattern, Quote), m.selector)

\* Empty or whitespace only.
Blank(line) == RunLen(line, 1, Whitespace, TRUE) = Len(line)

\* The first non-whitespace character is '#'.
HashComment(line) ==
    LET w == RunLen(line, 1, Whitespace, TRUE)
    IN  w < Len(line) /\ line[w + 1] = "#"

WarningsFor(i) == { k \in 1..Len(warnings) : warnings[k][1] = i }

\* C6: every line that is empty, whitespace-only or whose first non-whitespace
\* character is '#' is skipped silently: it yields no warning and no rule, so
\* input made of such lines only yields no rules and no warnings.
C6_SilentSkip ==
    ParseReturned =>
        /\ \A i \in 1..Len(config_spec) :
              (Blank(config_spec[i]) \/ HashComment(config_spec[i]))
                  => WarningsFor(i) = {}
        /\ Len(data) + Len(warnings) <=
              Cardinality({ i \in 1..Len(config_spec) :
                              ~Blank(config_spec[i]) /\ ~HashComment(config_spec[i]) })

\* The rule read from line i is the one at this index of data.
RuleIndex(i) == Cardinality({ j \in 1..i : Matches(config_spec[j]) })

\* The pattern group of the line is written in double quotes.
QuotedPattern(line) ==
    LET raw == CS_SCOPE_RULE_match(line).pattern
    IN  Len(raw) >= 2 /\ raw[1] = Quote /\ raw[Len(raw)] = Quote

\* C7: every returned rule has scope "element", a non-empty pattern and a
\* non-empty selector, and a pattern written in double quotes is stored as the
\* text between the quotes, verbatim.
C7_RuleFields ==
    ParseReturned =>
        /\ \A k \in 1..Len(data) :
              /\ data[k].scope = Keyword
              /\ data[k].pattern # <<>>
              /\ data[k].selector # <<>>
        /\ \A i \in 1..Len(config_spec) :
              (Matches(config_spec[i]) /\ QuotedPattern(config_spec[i])) =>
                  LET raw == CS_SCOPE_RULE_match(config_spec[i]).pattern
                  IN  /\ RuleIndex(i) <= Len(data)
                      /\ data[RuleIndex(i)].pattern = SubSeq(raw, 2, Len(raw) - 1)

\* C10: parse_iterable consumes every line and raises nothing; the rules are
\* the rules of the lines matching the element grammar, one per line, in the
\* order of the lines; every non-blank, non-comment line that does not match
\* yields exactly one warning with its 1-based number and its text.
C10_ParseNeverAborts ==
    ParseReturned =>
        /\ line_no = Len(config_spec)
        /\ raised = NoError
        /\ LET matching == SelectSeq(config_spec, Matches)
           IN  /\ Len(data) = Len(matching)
               /\ \A k \in 1..Len(matching) : data[k] = RuleOfLine(matching[k])
        /\ \A i \in 1..Len(config_spec) :
              (~Blank(config_spec[i]) /\ ~HashComment(config_spec[i])
                    /\ ~Matches(config_spec[i]))
                  => Cardinality({ k \in 1..Len(warnings) :
                                     warnings[k] = <<i, config_spec[i]>> }) = 1

\* A line that is no rule, comment or blank came before a rule line, and
\* parse_iterable returned the rule and the warning.
C10_Witness ==
    /\ ParseReturned
    /\ \E i, j \in 1..Len(config_spec) :
          /\ i < j
          /\ ~Blank(config_spec[i]) /\ ~HashComment(config_spec[i])
          /\ ~Matches(config_spec[i])
          /\ Matches(config_spec[j])
    /\ data # <<>>
    /\ warnings # <<>>

-----------------------------------------------------------------------------
(* Properties of the ordering, checked under SpecSort. sorted() has         *)
(* returned when pc = "derive": data is its input and spec its result.      *)

Sorted == pc = "derive"

\* C1: sorting places every rule whose pattern is "*" strictly after every
\* rule whose pattern is not "*".
C1_WildcardLast ==
    Sorted =>
        \A i, j \in 1..Len(spec) :
            (spec[i].pattern = Star /\ spec[j].pattern # Star) => j < i

\* C1, amended: sorting places every rule whose pattern is "*" strictly before
\* every rule whose pattern is neither "*" nor empty.
C1_WildcardFirst ==
    Sorted =>
        \A i, j \in 1..Len(spec) :
            (spec[i].pattern = Star /\ spec[j].pattern \notin {Star, <<>>})
                => i < j

\* A "*" rule that followed a longer pattern in the input was sorted to the front.
C1_Witness ==
    /\ Sorted
    /\ Len(data) >= 2
    /\ data[1].pattern = <<"d", "/", "f">>
    /\ data[2].pattern = Star
    /\ spec[1].pattern = Star

\* C8: the sorted non-wildcard rules are in order of pattern length, shorter
\* first, and the rules with non-wildcard patterns of one length keep the
\* relative order they had in the input.
C8_StableByLength ==
    Sorted =>
        /\ \A i, j \in 1..Len(spec) :
              (i < j /\ spec[i].pattern # Star /\ spec[j].pattern # Star)
                  => Len(spec[i].pattern) <= Len(spec[j].pattern)
        /\ \A n \in { Len(data[k].pattern) : k \in 1..Len(data) } :
              LET OfLength(r) == r.pattern # Star /\ Len(r.pattern) = n
              IN  SelectSeq(spec, OfLength) = SelectSeq(data, OfLength)

-----------------------------------------------------------------------------
(* Properties of the command derivation, checked under SpecCmd.             *)
(* to_commands has returned when pc = "run" and has raised when             *)
(* pc = "except"; command_list[k] is the command of spec[k].                *)

Returned == pc = "run"

Raised == pc = "except"

Target(k) == joinpath(relative_root, Path(spec[k].pattern))

LastPart(path) == path.parts[Len(path.parts)]

\* The pattern is not "*" and names no existing regular file.
DenotesDirectory(k) ==
    spec[k].pattern # Star /\ ~is_file(Target(k), fs)

\* C2: for a rule whose pattern denotes a directory the working directory is
\* the pattern itself resolved against the base directory, not its parent, and
\* the relative pattern is the empty path.
C2_DirectoryIsWorkingDirectory ==
    \A k \in 1..Len(command_list) :
        DenotesDirectory(k) =>
            /\ command_list[k].gitdir = Target(k)
            /\ command_list[k].pattern = EmptyPath

\* C2, amended: for a rule whose pattern denotes a directory and has at least
\* one path component, every command produced has the parent of base/pattern
\* as its working directory, not the directory itself, and, with the base
\* directory ".", the directory's own name as its relative pattern.
C2_ParentIsWorkingDirectory ==
    \A k \in 1..Len(command_list) :
        (DenotesDirectory(k) /\ Path(spec[k].pattern).parts # <<>>) =>
            /\ command_list[k].gitdir.root = Target(k).root
            /\ command_list[k].gitdir.parts \o <<LastPart(Target(k))>>
                   = Target(k).parts
            /\ command_list[k].gitdir # Target(k)
            /\ relative_root = EmptyPath =>
                   command_list[k].pattern =
                       [root |-> "", parts |-> <<LastPart(Target(k))>>]

\* The existing directory d, named by a rule under the base directory ".",
\* got its command.
C2_Witness ==
    /\ relative_root = EmptyPath
    /\ Rel(<<Dir_d>>) \in fs
    /\ \E k \in 1..Len(command_list) : spec[k].pattern = <<"d">>

\* C3: when every rule names an existing file under the base directory,
\* whatever the base directory, to_commands returns one command per rule, with
\* the file's parent directory as working directory and the file name alone
\* as relative pattern.
C3_ExistingFileAnyBase ==
    ((Returned \/ Raised) /\ \A k \in 1..Len(spec) : is_file(Target(k), fs)) =>
        /\ Returned
        /\ Len(command_list) = Len(spec)
        /\ \A k \in 1..Len(spec) :
              /\ command_list[k].gitdir.parts \o <<LastPart(Target(k))>>
                     = Target(k).parts
              /\ command_list[k].pattern =
                     [root |-> "", parts |-> <<LastPart(Target(k))>>]

\* The rules whose derived working directory does not exist.
MissingDirectory ==
    { k \in 1..Len(spec) : ~exists(gitdir_of(relative_root, Path(spec[k].pattern)), fs) }

\* C5: without the bypass flag to_commands raises FileNotFoundError naming the
\* directory of the first rule whose working directory does not exist, and
\* returns nothing; with the flag it never raises that error and returns one
\* command per rule, in order, each with its rule's selector.
C5_MissingDirectory ==
    (Returned \/ Raised) =>
        /\ (~ignore_nonexisting /\ MissingDirectory # {}) =>
              /\ Raised
              /\ raised = [type |-> "FileNotFoundError",
                           path |-> gitdir_of(relative_root,
                                              Path(spec[Min(MissingDirectory)].pattern))]
              /\ rule_no = Min(MissingDirectory)
        /\ ignore_nonexisting =>
              /\ raised.type # "FileNotFoundError"
              /\ Returned
              /\ Len(command_list) = Len(spec)
              /\ \A k \in 1..Len(spec) : command_list[k].selector = spec[k].selector

-----------------------------------------------------------------------------
(* Properties of a run of the main program, checked under Spec. The process *)
(* has exited when pc = "done".                                             *)

Exited == pc = "done"

\* C4: the exit status is 0 after a successful run, 1 when the config spec is
\* not found, 2 when a working directory does not exist and is checked, and 3
\* (never 0) when a checkout failed in apply mode.
C4_ExitCodes ==
    Exited =>
        /\ (raised = NoError /\ ~run_failed) => exit_code = 0
        /\ ~config_exists => exit_code = 1
        /\ (config_exists /\ raised.type = "FileNotFoundError") => exit_code = 2
        /\ run_failed => exit_code = 3
        /\ run_failed => exit_code # 0

\* C9: the commands executed are, in order, the commands of the first sorted
\* rules: a prefix of the derived command list; none is executed before the
\* derivation of all rules has returned, none after a derivation error, none
\* in the dry-run and stdout modes, and none after a command has failed.
C9_ExecutedIsPrefix ==
    /\ [](/\ Len(executed) <= Len(command_list)
          /\ executed = SubSeq(command_list, 1, Len(executed))
          /\ \A k \in 1..Len(executed) :
                <<executed[k]>> = to_command(sorted(data)[k], relative_root,
                                             ignore_nonexisting, fs).commands
          /\ executed # <<>> =>
                /\ mode = "apply"
                /\ raised = NoError
                /\ rule_no = Len(spec)
                /\ pc \in {"run", "caught", "done"})
    /\ [][run_failed => executed' = executed]_vars

\* In apply mode the first of two commands failed and the process exited.
C9_Witness ==
    /\ Exited
    /\ mode = "apply"
    /\ run_failed
    /\ Len(executed) = 1
    /\ Len(command_list) = 2

=============================================================================
